---- MODULE Spec2Model ----
(***************************************************************************)
(* Model of the OpenStreetMap MCP server (src/src/osm_mcp_server/server.py) *)
(* One OSMClient, its HTTP session, and one tool invocation at a time       *)
(* (one logical task per request).  The providers (Nominatim, OSRM,         *)
(* Overpass) are the environment: every outbound request gets an HTTP       *)
(* status and a body chosen nondeterministically.                           *)
(***************************************************************************)
EXTENDS Integers, Sequences, FiniteSets, TLC

VARIABLES
    session,    \* OSMClient.session: "none" (None), "open", "closed"
    pc,         \* position of the running tool invocation
    tool,       \* name of the tool invoked last
    args,       \* the arguments of that invocation
    idx,        \* explore_area: the loop index i
    results,    \* explore_area: results, category -> subcategory -> features
    matching,   \* suggest_meeting_point: matching_venues
    trace,      \* outbound requests and ctx notifications of the invocation
    lastCall,   \* the most recent client operation of the invocation
    ret,        \* what the tool gave its caller: returned value / raised error
    leaked,     \* sessions the client opened, lost the reference to, never closed
    life        \* app_lifespan: its phase, the disconnect() calls it made, its end

vars == <<session, pc, tool, args, idx, results, matching, trace, lastCall, ret,
          leaked, life>>

\* ------------------------------------------------------------------ bounds
\* longest element list an Overpass answer to get_nearby_pois carries
MaxPlaces == 2
\* longest answer of Nominatim search
MaxResults == 1
\* largest locations list handed to suggest_meeting_point
MaxLocations == 3
\* longest element list an Overpass answer to a feature query carries
MaxFeatures == 2
\* most sessions the client is let lose the reference to
MaxLeaked == 1

\* ------------------------------------------------------- helper operators
Min(a, b) == IF a < b THEN a ELSE b
Max(a, b) == IF a > b THEN a ELSE b

SeqsUpTo(S, n) == UNION {[1..k -> S] : k \in 0..n}

RECURSIVE SumLens(_)
\* sum of the lengths of the sequences of a finite set of sequences-by-key
SumLens(f) ==
    IF DOMAIN f = {} THEN 0
    ELSE LET k == CHOOSE x \in DOMAIN f : TRUE
         IN  Len(f[k]) + SumLens([y \in DOMAIN f \ {k} |-> f[y]])

\* Python dict: a function on a finite set of keys
EmptyDict == [k \in {} |-> 0]
DictSet(d, k, v) == [x \in DOMAIN d \cup {k} |-> IF x = k THEN v ELSE d[x]]
\* d.get(k, default)
DictGet(d, k, default) == IF k \in DOMAIN d THEN d[k] ELSE default

\* Python None, as the value of tags.get(category) and feature.get("lat")
None == "<None>"

\* ------------------------------------------------------------ environment
\* HTTP statuses a provider may answer with
Statuses == {200, 204, 404, 500}
Is2xx(s) == s >= 200 /\ s < 300

NoError == [kind |-> "none", status |-> 0]
NoValue == <<>>
NoCall  == [op |-> "none", sess |-> "none", status |-> 0, body |-> NoValue,
            sent |-> <<>>, ok |-> FALSE, error |-> NoError, value |-> NoValue]
NoRet   == [status |-> "none", error |-> NoError, value |-> NoValue]

Returned(v) == [status |-> "returned", error |-> NoError, value |-> v]
Raised(e)   == [status |-> "raised", error |-> e, value |-> NoValue]

\* OSM elements: type, whether lat/lon (node) or center (way, relation) is
\* present, and the tag mapping
Node(id, tags)        == [id |-> id, type |-> "node", lat |-> TRUE,  center |-> FALSE, tags |-> tags]
NodeNoPos(id, tags)   == [id |-> id, type |-> "node", lat |-> FALSE, center |-> FALSE, tags |-> tags]
Way(id, tags)         == [id |-> id, type |-> "way",  lat |-> FALSE, center |-> TRUE,  tags |-> tags]
WayNoCenter(id, tags) == [id |-> id, type |-> "way",  lat |-> FALSE, center |-> FALSE, tags |-> tags]

Tag(k, v) == [x \in {k} |-> v]
Tag2(k1, v1, k2, v2) == [x \in {k1, k2} |-> IF x = k1 THEN v1 ELSE v2]

\* a Python list value
List(s) == [list |-> s]

\* bodies of an Overpass answer: a JSON object with or without "elements"
OverpassBody(elems) == [hasElements |-> TRUE, elements |-> elems]
OverpassNoElements  == [hasElements |-> FALSE, elements |-> <<>>]

\* ------------------------------------------------------------- OSMClient
\* what each operation returns from the parsed body of a 200 answer
ParseBody(op, body) ==
    IF op \in {"get_nearby_pois", "search_features_by_category"}
    THEN List(IF body.hasElements THEN body.elements ELSE <<>>)
    ELSE body

\* an operation that opens a session by itself when there is none
ClientOpLazyConnect(sess, op, req, status, body) ==
    IF sess = "closed"
    THEN [op |-> op, sess |-> sess, status |-> 0, body |-> NoValue, sent |-> <<>>,
          ok |-> FALSE, error |-> [kind |-> "session_closed", status |-> 0],
          value |-> NoValue]
    ELSE [op |-> op, sess |-> sess, status |-> status, body |-> body,
          sent |-> <<[ev |-> "request", op |-> op, req |-> req]>>,
          ok |-> status = 200,
          error |-> IF status = 200 THEN NoError
                    ELSE [kind |-> "upstream", status |-> status],
          value |-> IF status = 200 THEN ParseBody(op, body) ELSE NoValue]

\* an operation that takes every 2xx status for a success
ClientOpAny2xx(sess, op, req, status, body) ==
    IF sess # "open"
    THEN [op |-> op, sess |-> sess, status |-> 0, body |-> NoValue, sent |-> <<>>,
          ok |-> FALSE,
          error |-> [kind |-> IF sess = "none" THEN "not_connected" ELSE "session_closed",
                     status |-> 0],
          value |-> NoValue]
    ELSE [op |-> op, sess |-> sess, status |-> status, body |-> body,
          sent |-> <<[ev |-> "request", op |-> op, req |-> req]>>,
          ok |-> Is2xx(status),
          error |-> IF Is2xx(status) THEN NoError
                    ELSE [kind |-> "upstream", status |-> status],
          value |-> IF Is2xx(status) THEN ParseBody(op, body) ELSE NoValue]

\* an operation that issues a failed request a second time
ClientOpRetry(sess, op, req, status, body) ==
    IF sess # "open"
    THEN [op |-> op, sess |-> sess, status |-> 0, body |-> NoValue, sent |-> <<>>,
          ok |-> FALSE,
          error |-> [kind |-> IF sess = "none" THEN "not_connected" ELSE "session_closed",
                     status |-> 0],
          value |-> NoValue]
    ELSE [op |-> op, sess |-> sess, status |-> status, body |-> body,
          sent |-> IF status = 200
                   THEN <<[ev |-> "request", op |-> op, req |-> req]>>
                   ELSE <<[ev |-> "request", op |-> op, req |-> req],
                          [ev |-> "request", op |-> op, req |-> req]>>,
          ok |-> status = 200,
          error |-> IF status = 200 THEN NoError
                    ELSE [kind |-> "upstream", status |-> status],
          value |-> IF status = 200 THEN ParseBody(op, body) ELSE NoValue]

\* One client operation against the session state sess, the provider
\* answering (status, body) to the request req if one is issued.
ClientOp(sess, op, req, status, body) ==
    IF sess = "none"
    THEN [op |-> op, sess |-> sess, status |-> 0, body |-> NoValue, sent |-> <<>>,
          ok |-> FALSE, error |-> [kind |-> "not_connected", status |-> 0],
          value |-> NoValue]
    ELSE IF sess = "closed"
    THEN [op |-> op, sess |-> sess, status |-> 0, body |-> NoValue, sent |-> <<>>,
          ok |-> FALSE, error |-> [kind |-> "session_closed", status |-> 0],
          value |-> NoValue]
    ELSE IF status = 200
    THEN [op |-> op, sess |-> sess, status |-> status, body |-> body,
          sent |-> <<[ev |-> "request", op |-> op, req |-> req]>>,
          ok |-> TRUE, error |-> NoError, value |-> ParseBody(op, body)]
    ELSE [op |-> op, sess |-> sess, status |-> status, body |-> body,
          sent |-> <<[ev |-> "request", op |-> op, req |-> req]>>,
          ok |-> FALSE, error |-> [kind |-> "upstream", status |-> status],
          value |-> NoValue]

\* connect() and disconnect() are called by the lifespan manager, outside
\* any tool invocation
\* the client is used outside app_lifespan
NoLifespan == [phase |-> "none", disconnects |-> 0, how |-> "none"]

\* connect() assigns a new session whatever self.session holds: a session
\* that is open then stays open with no reference left to it
Connect ==
    /\ pc = "idle"
    /\ session = "open" => leaked < MaxLeaked
    /\ session' = "open"
    /\ leaked' = IF session = "open" THEN leaked + 1 ELSE leaked
    /\ UNCHANGED <<pc, tool, args, idx, results, matching, trace, lastCall, ret, life>>

\* disconnect(): "if self.session: await self.session.close()"
AfterDisconnect(sess) == IF sess = "none" THEN "none" ELSE "closed"

Disconnect ==
    /\ pc = "idle"
    /\ session' = AfterDisconnect(session)
    /\ UNCHANGED <<pc, tool, args, idx, results, matching, trace, lastCall, ret,
                   leaked, life>>

\* ------------------------------------------------------------------ tools
\* what one client call leaves in the trace: the call, the outbound
\* requests it issued, its completion
CallEvents(call, req) ==
    <<[ev |-> "call", op |-> call.op, req |-> req]>> \o call.sent
        \o <<[ev |-> "completed", op |-> call.op, req |-> req, ok |-> call.ok]>>

\* a tool invocation of one client call: the notifications sent before the
\* call, the call, then the tool's outcome
Finish(t, a, notes, call, req, r) ==
    /\ pc' = "done"
    /\ tool' = t
    /\ args' = a
    /\ lastCall' = call
    /\ trace' = notes \o CallEvents(call, req)
    /\ ret' = r
    /\ UNCHANGED <<session, leaked, life, idx, results, matching>>

\* the (latitude, longitude) argument of a request; its value is not modelled
Point == [lat |-> "num", lon |-> "num"]
\* Bounding boxes.  Latitudes and longitudes are whole degrees, a radius is
\* whole metres, and the corners of a box are in units of 1/111000 degree,
\* so that radius / 111000 degrees is radius units.
UnitsPerDegree == 111000

\* math.cos(math.radians(lat)), in ten-thousandths
Cos10k(lat) ==
    CASE lat = 0             -> 10000
      [] lat \in {45, -45}   -> 7071
      [] lat \in {60, -60}   -> 5000
      [] lat \in {89, -89}   -> 175
      [] lat \in {120, -120} -> -5000

\* a / b rounded towards zero, b # 0
Quotient(a, b) == IF b > 0 THEN a \div b ELSE -(a \div (-b))

\* a box whose two deltas are taken for one another
BBoxSwapped(lat, lon, radius) ==
    LET lon_delta == radius
        lat_delta == Quotient(radius * 10000, Cos10k(lat))
    IN  <<lon * UnitsPerDegree - lon_delta, lat * UnitsPerDegree - lat_delta,
          lon * UnitsPerDegree + lon_delta, lat * UnitsPerDegree + lat_delta>>

\* get_nearby_pois: bbox = (lon - lon_delta, lat - lat_delta,
\*                          lon + lon_delta, lat + lat_delta)
BBox(lat, lon, radius) ==
    LET lat_delta == radius
        lon_delta == Quotient(radius * 10000, Cos10k(lat))
    IN  <<lon * UnitsPerDegree - lon_delta, lat * UnitsPerDegree - lat_delta,
          lon * UnitsPerDegree + lon_delta, lat * UnitsPerDegree + lat_delta>>

\* explore_area computes the box by the same lines of its own
ExploreBBox(latitude, longitude, radius) == BBox(latitude, longitude, radius)

\* what get_nearby_pois(lat, lon, radius) asks Overpass for
PoiRequest(lat, lon, radius) == [radius |-> radius, bbox |-> BBox(lat, lon, radius)]

Area(lat, lon, radius) == [latitude |-> lat, longitude |-> lon, radius |-> radius]
\* the (latitude, longitude, radius) arguments of find_nearby_places
Areas == {Area(0, 0, 1000), Area(45, 10, 1000), Area(-60, -170, 500),
          Area(89, 180, 1), Area(120, 0, 1000)}
\* the (latitude, longitude, radius) arguments of explore_area
ExploreAreas == {Area(60, 10, 500)}
\* the mean of the locations given to suggest_meeting_point
MeetingCentre == [latitude |-> 45, longitude |-> 10]

\* geocode_address -------------------------------------------------------
GeocodeHit(withLatLon) == [lat |-> withLatLon, lon |-> withLatLon, coordinates |-> FALSE]
GeocodeBodies == {List(b) : b \in SeqsUpTo({GeocodeHit(TRUE), GeocodeHit(FALSE)}, MaxResults)}

GeocodeAddressResult(call) ==
    IF ~call.ok THEN Raised(call.error)
    ELSE Returned(List([k \in DOMAIN call.value.list |->
            [call.value.list[k] EXCEPT !.coordinates = call.value.list[k].lat /\ call.value.list[k].lon]]))

GeocodeAddress ==
    /\ pc = "idle"
    /\ \E status \in Statuses, body \in GeocodeBodies :
        LET call == ClientOp(session, "geocode", [q |-> "address"], status, body)
        IN  Finish("geocode_address", <<>>, <<>>, call, [q |-> "address"], GeocodeAddressResult(call))

\* reverse_geocode -------------------------------------------------------
AddressBodies == {[display_name |-> "Main St"], [error |-> "Unable to geocode"]}

ReverseGeocodeResult(call) ==
    IF ~call.ok THEN Raised(call.error) ELSE Returned(call.value)

ReverseGeocode ==
    /\ pc = "idle"
    /\ \E status \in Statuses, body \in AddressBodies :
        LET call == ClientOp(session, "reverse_geocode", Point, status, body)
        IN  Finish("reverse_geocode", <<>>, <<>>, call, Point, ReverseGeocodeResult(call))

\* find_nearby_places ----------------------------------------------------
DefaultCategories == <<"amenity", "shop", "tourism", "leisure">>
DefaultLimit == 20
DefaultRadius == 1000

\* the elements Overpass may answer a POI query with
PlaceKinds ==
    { Node(1, Tag("amenity", "cafe")),
      Node(2, Tag2("amenity", "bar", "shop", "kiosk")),
      Node(3, Tag2("shop", "kiosk", "name", "Joe")),
      Node(4, Tag("tourism", "hotel")),
      NodeNoPos(5, EmptyDict) }
PoiBodies == {OverpassBody(e) : e \in SeqsUpTo(PlaceKinds, MaxPlaces)} \cup {OverpassNoElements}

\* the categories argument; <<>> stands for None and for []
CategoryLists == { <<>>, <<"amenity">>, <<"shop", "amenity">>,
                   <<"amenity", "amenity">>, <<"historic">> }
Limits == {-1, 0, 1, 2, DefaultLimit}

\* places[:limit]
Slice(s, limit) ==
    IF limit >= 0 THEN SubSeq(s, 1, Min(limit, Len(s)))
    ELSE SubSeq(s, 1, Max(Len(s) + limit, 0))

PlaceInfo(place) ==
    [id |-> place.id,
     name |-> DictGet(place.tags, "name", "Unnamed"),
     latitude |-> IF place.lat THEN "num" ELSE None,
     longitude |-> IF place.lat THEN "num" ELSE None,
     tags |-> place.tags]

RECURSIVE GroupUnderEager(_, _, _, _)
\* an inner loop that makes the category's entry before it looks at the tags
GroupUnderEager(res, place, categories, k) ==
    IF k > Len(categories) THEN res
    ELSE LET category == categories[k]
             byCat == DictGet(res, category, EmptyDict)
         IN  IF category \in DOMAIN place.tags
             THEN LET subcategory == place.tags[category]
                      lst == DictGet(byCat, subcategory, <<>>)
                  IN  GroupUnderEager(
                        DictSet(res, category,
                                DictSet(byCat, subcategory, Append(lst, PlaceInfo(place)))),
                        place, categories, k + 1)
             ELSE GroupUnderEager(DictSet(res, category, byCat), place, categories, k + 1)

RECURSIVE GroupUnder(_, _, _, _)
\* the inner loop "for category in categories" for one place, from the k-th
\* category on
GroupUnder(res, place, categories, k) ==
    IF k > Len(categories) THEN res
    ELSE LET category == categories[k]
         IN  IF category \in DOMAIN place.tags
             THEN LET subcategory == place.tags[category]
                      byCat == DictGet(res, category, EmptyDict)
                      lst   == DictGet(byCat, subcategory, <<>>)
                  IN  GroupUnder(
                        DictSet(res, category,
                                DictSet(byCat, subcategory, Append(lst, PlaceInfo(place)))),
                        place, categories, k + 1)
             ELSE GroupUnder(res, place, categories, k + 1)

RECURSIVE GroupPlaces(_, _, _, _)
\* the outer loop "for place in places[:limit]", from the k-th place on
GroupPlaces(res, places, categories, k) ==
    IF k > Len(places) THEN res
    ELSE GroupPlaces(GroupUnder(res, places[k], categories, 1), places, categories, k + 1)

RECURSIVE TotalCount(_)
\* sum(len(places) for category_data in d.values() for places in category_data.values())
TotalCount(d) ==
    IF DOMAIN d = {} THEN 0
    ELSE LET c == CHOOSE x \in DOMAIN d : TRUE
         IN  SumLens(d[c]) + TotalCount([y \in DOMAIN d \ {c} |-> d[y]])

EffectiveCategories(categories) ==
    IF categories = <<>> THEN DefaultCategories ELSE categories

\* a tool that answers a failed search with an empty result
FindNearbyPlacesSwallow(call, categories, limit) ==
    IF ~call.ok THEN Returned([categories |-> EmptyDict, total_count |-> 0])
    ELSE LET results_by_category ==
                GroupPlaces(EmptyDict, Slice(call.value.list, limit),
                            EffectiveCategories(categories), 1)
         IN  Returned([categories |-> results_by_category,
                       total_count |-> TotalCount(results_by_category)])

FindNearbyPlacesResult(call, categories, limit) ==
    IF ~call.ok THEN Raised(call.error)
    ELSE LET results_by_category ==
                GroupPlaces(EmptyDict, Slice(call.value.list, limit),
                            EffectiveCategories(categories), 1)
         IN  Returned([categories |-> results_by_category,
                       total_count |-> TotalCount(results_by_category)])

FindNearbyPlaces ==
    /\ pc = "idle"
    /\ \E categories \in CategoryLists, limit \in Limits, area \in Areas,
       status \in Statuses, body \in PoiBodies :
        LET req  == PoiRequest(area.latitude, area.longitude, area.radius)
            call == ClientOp(session, "get_nearby_pois", req, status, body)
        IN  Finish("find_nearby_places",
                   [categories |-> categories, limit |-> limit,
                    latitude |-> area.latitude, longitude |-> area.longitude,
                    radius |-> area.radius],
                   <<[ev |-> "info"]>>, call, req,
                   FindNearbyPlacesResult(call, categories, limit))

\* get_route_directions --------------------------------------------------
ValidModes == {"car", "bike", "foot"}
Modes == ValidModes \cup {"plane"}
RouteBodies == { [hasRoutes |-> FALSE, routes |-> <<>>],
                 [hasRoutes |-> TRUE,  routes |-> <<>>],
                 [hasRoutes |-> TRUE,  routes |-> <<[distance |-> 1]>>] }

EffectiveMode(mode) == IF mode \in ValidModes THEN mode ELSE "car"

RouteDirectionsResult(call, mode) ==
    IF ~call.ok THEN Raised(call.error)
    ELSE IF call.value.hasRoutes /\ Len(call.value.routes) > 0
    THEN Returned([summary |-> [distance |-> call.value.routes[1].distance, mode |-> mode]])
    ELSE Raised([kind |-> "no_route", status |-> 0])

GetRouteDirections ==
    /\ pc = "idle"
    /\ \E mode \in Modes, status \in Statuses, body \in RouteBodies :
        LET m == EffectiveMode(mode)
            call == ClientOp(session, "get_route", [mode |-> m], status, body)
        IN  Finish("get_route_directions", [mode |-> mode],
                   (IF mode \in ValidModes THEN <<>> ELSE <<[ev |-> "warning", about |-> mode]>>)
                       \o <<[ev |-> "info"]>>,
                   call, [mode |-> m], RouteDirectionsResult(call, m))

\* search_category -------------------------------------------------------
\* the elements Overpass may answer a feature query for category c with
FeatureKinds(c) ==
    { Node(1, Tag(c, "a")),
      NodeNoPos(2, Tag(c, "a")),
      Way(3, Tag2(c, "b", "name", "Joe")),
      WayNoCenter(4, Tag(c, "b")),
      Node(5, EmptyDict) }
FeatureBodies(c) ==
    {OverpassBody(e) : e \in SeqsUpTo(FeatureKinds(c), MaxFeatures)} \cup {OverpassNoElements}

\* "coords" of a feature: by lat/lon for a node, by center for the others,
\* the empty dict when there is no center
Coords(feature) ==
    IF feature.type = "node"
    THEN [latitude  |-> IF feature.lat THEN "num" ELSE None,
          longitude |-> IF feature.lat THEN "num" ELSE None]
    ELSE IF feature.center
    THEN [latitude |-> "num", longitude |-> "num"]
    ELSE EmptyDict

\* Python truth value of a dict
Truthy(d) == DOMAIN d # {}

SearchEntry(feature, category) ==
    [id |-> feature.id, type |-> feature.type,
     name |-> DictGet(feature.tags, "name", "Unnamed"),
     coordinates |-> Coords(feature),
     category |-> category,
     subcategory |-> DictGet(feature.tags, category, None),
     tags |-> feature.tags]

RECURSIVE SearchResults(_, _, _)
\* the loop "for feature in features", from the k-th feature on
SearchResults(features, category, k) ==
    IF k > Len(features) THEN <<>>
    ELSE (IF Truthy(Coords(features[k]))
          THEN <<SearchEntry(features[k], category)>> ELSE <<>>)
         \o SearchResults(features, category, k + 1)

SearchCategoryResult(call, category) ==
    IF ~call.ok THEN Raised(call.error)
    ELSE LET r == SearchResults(call.value.list, category, 1)
         IN  Returned([results |-> r, count |-> Len(r)])

SearchCategories == {"amenity", "shop"}

SearchCategory ==
    /\ pc = "idle"
    /\ \E category \in SearchCategories, status \in Statuses :
       \E body \in FeatureBodies(category) :
        LET call == ClientOp(session, "search_features_by_category", [category |-> category], status, body)
        IN  Finish("search_category", [category |-> category], <<[ev |-> "info"]>>,
                   call, [category |-> category], SearchCategoryResult(call, category))

\* suggest_meeting_point -------------------------------------------------
VenueTypes == {"cafe", "restaurant"}
FirstRadius == 500
ExpandedRadius == 1000

VenueInfo(venue) ==
    [id |-> venue.id,
     name |-> DictGet(venue.tags, "name", "Unnamed Venue"),
     latitude |-> IF venue.lat THEN "num" ELSE None,
     longitude |-> IF venue.lat THEN "num" ELSE None,
     tags |-> venue.tags]

RECURSIVE MatchingVenuesAnyAmenity(_, _, _)
\* a filter that keeps every venue carrying an amenity tag
MatchingVenuesAnyAmenity(venues, venue_type, k) ==
    IF k > Len(venues) THEN <<>>
    ELSE (IF "amenity" \in DOMAIN venues[k].tags
          THEN <<VenueInfo(venues[k])>> ELSE <<>>)
         \o MatchingVenuesAnyAmenity(venues, venue_type, k + 1)

RECURSIVE MatchingVenues(_, _, _)
\* the loop "for venue in venues" keeping tags.get("amenity") == venue_type
MatchingVenues(venues, venue_type, k) ==
    IF k > Len(venues) THEN <<>>
    ELSE (IF DictGet(venues[k].tags, "amenity", None) = venue_type
          THEN <<VenueInfo(venues[k])>> ELSE <<>>)
         \o MatchingVenues(venues, venue_type, k + 1)

SuggestResult(venues, venue_type) ==
    Returned([suggested_venues |-> SubSeq(venues, 1, Min(5, Len(venues))),
              venue_type |-> venue_type,
              total_options |-> Len(venues)])

\* a test that lets a single location through
TooFewLocationsOffByOne(n) == n < 1

\* len(locations) < 2
TooFewLocations(n) == n < 2

\* up to the first await that the tool may suspend at for a second time
SuggestMeetingPoint ==
    /\ pc = "idle"
    /\ \E n \in 0..MaxLocations, venue_type \in VenueTypes,
       status \in Statuses, body \in PoiBodies :
        LET req   == PoiRequest(MeetingCentre.latitude, MeetingCentre.longitude, FirstRadius)
            call  == ClientOp(session, "get_nearby_pois", req, status, body)
            found == MatchingVenues(call.value.list, venue_type, 1)
            a     == [locations |-> n, venue_type |-> venue_type]
        IN  /\ tool' = "suggest_meeting_point"
            /\ args' = a
            /\ IF TooFewLocations(n)
               THEN /\ pc' = "done"
                    /\ ret' = Raised([kind |-> "validation", status |-> 0])
                    /\ UNCHANGED <<trace, lastCall, matching>>
               ELSE /\ lastCall' = call
                    /\ trace' = <<[ev |-> "info"]>> \o CallEvents(call, req)
                    /\ IF ~call.ok
                       THEN pc' = "done" /\ ret' = Raised(call.error) /\ UNCHANGED matching
                       ELSE /\ matching' = found
                            /\ IF found # <<>>
                               THEN pc' = "done" /\ ret' = SuggestResult(found, venue_type)
                               ELSE pc' = "suggest_expand" /\ UNCHANGED ret
            /\ UNCHANGED <<session, leaked, life, idx, results>>

\* "if not matching_venues": the search at 1000 m
SuggestExpand ==
    /\ pc = "suggest_expand"
    /\ \E status \in Statuses, body \in PoiBodies :
        LET req   == PoiRequest(MeetingCentre.latitude, MeetingCentre.longitude, ExpandedRadius)
            call  == ClientOp(session, "get_nearby_pois", req, status, body)
            found == matching \o MatchingVenues(call.value.list, args.venue_type, 1)
        IN  /\ pc' = "done"
            /\ lastCall' = call
            /\ trace' = trace \o <<[ev |-> "info"]>> \o CallEvents(call, req)
            /\ IF ~call.ok
               THEN ret' = Raised(call.error) /\ UNCHANGED matching
               ELSE matching' = found /\ ret' = SuggestResult(found, args.venue_type)
            /\ UNCHANGED <<session, leaked, life, tool, args, idx, results>>

\* explore_area ----------------------------------------------------------
ExploreCategories ==
    <<"amenity", "shop", "tourism", "leisure", "natural", "historic", "public_transport">>

\* what Overpass may answer the search for category c with
ExploreBodies(c) ==
    { OverpassBody(<< Node(1, Tag(c, "a")), NodeNoPos(2, Tag(c, "a")),
                      Way(3, Tag2(c, "b", "name", "Joe")), WayNoCenter(4, Tag(c, "b")),
                      Node(5, EmptyDict), Node(6, Tag(c, "")) >>) }

ExploreEntry(feature) ==
    [id |-> feature.id,
     name |-> DictGet(feature.tags, "name", "Unnamed"),
     coordinates |-> Coords(feature),
     type |-> feature.type,
     tags |-> feature.tags]

RECURSIVE GroupFeatures(_, _, _, _)
\* the loop "for feature in features" grouping by subcategory, from the
\* k-th feature on; "if subcategory" skips None and the empty string
GroupFeatures(subcategories, features, category, k) ==
    IF k > Len(features) THEN subcategories
    ELSE LET feature == features[k]
             subcategory == DictGet(feature.tags, category, None)
         IN  IF subcategory # None /\ subcategory # ""
             THEN GroupFeatures(
                    DictSet(subcategories, subcategory,
                            Append(DictGet(subcategories, subcategory, <<>>),
                                   ExploreEntry(feature))),
                    features, category, k + 1)
             ELSE GroupFeatures(subcategories, features, category, k + 1)

\* a loop body without the try/except
ExploreCategoryUncaught(call, category) ==
    [raise |-> ~call.ok,
     value |-> IF call.ok THEN GroupFeatures(EmptyDict, call.value.list, category, 1)
               ELSE EmptyDict,
     notes |-> <<>>]

\* the try/except around one category: raise tells whether the error leaves
\* the handler, value is results[category], notes the notifications sent
ExploreCategoryOutcome(call, category) ==
    IF call.ok
    THEN [raise |-> FALSE, value |-> GroupFeatures(EmptyDict, call.value.list, category, 1),
          notes |-> <<>>]
    ELSE [raise |-> FALSE, value |-> EmptyDict,
          notes |-> <<[ev |-> "warning", about |-> category]>>]

AddressError == [error |-> "Could not retrieve address information"]

\* the reverse-geocode call without the try/except
ExploreAddressUncaught(call) ==
    [raise |-> ~call.ok, value |-> IF call.ok THEN call.value ELSE AddressError]

\* the try/except around the reverse-geocode call
ExploreAddressOutcome(call) ==
    IF call.ok THEN [raise |-> FALSE, value |-> call.value]
    ELSE [raise |-> FALSE, value |-> AddressError]

\* the loop counting from 1
ProgressOneBased(current, total) ==
    [ev |-> "progress", current |-> current + 1, total |-> total]

Progress(current, total) == [ev |-> "progress", current |-> current, total |-> total]

ExploreStart ==
    /\ pc = "idle"
    /\ pc' = "pending"
    /\ tool' = "explore_area"
    /\ \E area \in ExploreAreas : args' = area
    /\ idx' = 0
    /\ results' = EmptyDict
    /\ UNCHANGED <<session, leaked, life, matching, trace, lastCall, ret>>

\* a loop body that does not report its progress
ExploreProgressSilent ==
    /\ pc \in {"pending", "aggregated"}
    /\ idx < Len(ExploreCategories)
    /\ pc' = "fetching"
    /\ trace' = trace \o <<[ev |-> "info"]>>
    /\ UNCHANGED <<session, leaked, life, tool, args, idx, results, matching, lastCall, ret>>

\* top of the loop body: report_progress(i, len(categories)) and ctx.info
ExploreProgress ==
    /\ pc \in {"pending", "aggregated"}
    /\ idx < Len(ExploreCategories)
    /\ pc' = "fetching"
    /\ trace' = trace \o <<Progress(idx, Len(ExploreCategories)), [ev |-> "info"]>>
    /\ UNCHANGED <<session, leaked, life, tool, args, idx, results, matching, lastCall, ret>>

\* the search of category i and the grouping of its answer
ExploreSearch ==
    /\ pc = "fetching"
    /\ \E status \in Statuses :
       \E body \in ExploreBodies(ExploreCategories[idx + 1]) :
        LET category == ExploreCategories[idx + 1]
            req  == [category |-> category,
                     bbox |-> ExploreBBox(args.latitude, args.longitude, args.radius)]
            call == ClientOp(session, "search_features_by_category", req, status, body)
            out  == ExploreCategoryOutcome(call, category)
        IN  /\ lastCall' = call
            /\ trace' = trace \o CallEvents(call, req) \o out.notes
            /\ IF out.raise
               THEN pc' = "done" /\ ret' = Raised(call.error) /\ UNCHANGED <<idx, results>>
               ELSE /\ pc' = "aggregated"
                    /\ results' = DictSet(results, category, out.value)
                    /\ idx' = idx + 1
                    /\ UNCHANGED ret
            /\ UNCHANGED <<session, leaked, life, tool, args, matching>>

\* a loop exit test that is off by one
ExploreReverseGeocodeOffByOne ==
    /\ pc \in {"pending", "aggregated"}
    /\ idx > Len(ExploreCategories)
    /\ pc' = "reverse_geocoding"
    /\ UNCHANGED <<session, leaked, life, tool, args, idx, results, matching, trace, lastCall, ret>>

\* the loop is over: the reverse-geocode call is issued
ExploreReverseGeocode ==
    /\ pc \in {"pending", "aggregated"}
    /\ idx >= Len(ExploreCategories)
    /\ pc' = "reverse_geocoding"
    /\ UNCHANGED <<session, leaked, life, tool, args, idx, results, matching, trace, lastCall, ret>>

\* its answer, the final report_progress and the return
ExploreFinish ==
    /\ pc = "reverse_geocoding"
    /\ \E status \in Statuses, body \in AddressBodies :
        LET call == ClientOp(session, "reverse_geocode", Point, status, body)
            out  == ExploreAddressOutcome(call)
            n    == Len(ExploreCategories)
        IN  /\ pc' = "done"
            /\ lastCall' = call
            /\ IF out.raise
               THEN /\ trace' = trace \o CallEvents(call, Point)
                    /\ ret' = Raised(call.error)
               ELSE /\ trace' = trace \o CallEvents(call, Point) \o <<Progress(n, n)>>
                    /\ ret' = Returned([address |-> out.value,
                                        categories |-> results,
                                        total_features |-> TotalCount(results)])
            /\ UNCHANGED <<session, leaked, life, tool, args, idx, results, matching>>

\* get_map_style (resource location://map/{style}/{z}/{x}/{y}) ----------
\* tile_servers: style -> URL template
TileServers ==
    [standard  |-> "https://tile.openstreetmap.org/{z}/{x}/{y}.png",
     cycle     |-> "https://tile.thunderforest.com/cycle/{z}/{x}/{y}.png",
     transport |-> "https://tile.thunderforest.com/transport/{z}/{x}/{y}.png",
     landscape |-> "https://tile.thunderforest.com/landscape/{z}/{x}/{y}.png",
     outdoor   |-> "https://tile.thunderforest.com/outdoors/{z}/{x}/{y}.png"]

\* the styles a request may name: the known ones and two unknown ones
Styles == DOMAIN TileServers \cup {"satellite", "outdoors"}
\* the tiles a request may name
Tiles == {[z |-> 0, x |-> 0, y |-> 0], [z |-> 1, x |-> 1, y |-> 0]}

\* a style that is not in the table is kept and looked up as its nearest name
EffectiveStyleGuess(style) ==
    IF style \notin DOMAIN TileServers
    THEN IF style = "outdoors" THEN "outdoor" ELSE "standard"
    ELSE style

\* "if style not in tile_servers: style = 'standard'"
EffectiveStyle(style) ==
    IF style \notin DOMAIN TileServers THEN "standard" ELSE style

\* the template with {z}, {x}, {y} replaced by the numbers of the tile
TileUrl(style, tile) ==
    [template |-> TileServers[EffectiveStyle(style)], z |-> tile.z, x |-> tile.x, y |-> tile.y]

TileData == "tile bytes"

GetMapStyleResult(status) ==
    IF status = 200 THEN Returned([data |-> TileData, mime |-> "image/png"])
    ELSE Raised([kind |-> "upstream", status |-> status])

\* the resource opens a session of its own for the one request
GetMapStyle ==
    /\ pc = "idle"
    /\ \E style \in Styles, tile \in Tiles, status \in Statuses :
        /\ pc' = "done"
        /\ tool' = "get_map_style"
        /\ args' = [style |-> style, z |-> tile.z, x |-> tile.x, y |-> tile.y]
        /\ trace' = <<[ev |-> "tile_request", url |-> TileUrl(style, tile)],
                      [ev |-> "tile_response", status |-> status]>>
        /\ ret' = GetMapStyleResult(status)
        /\ UNCHANGED <<session, leaked, life, idx, results, matching, lastCall>>

ExploreStep == ExploreProgress \/ ExploreSearch \/ ExploreReverseGeocode \/ ExploreFinish

\* the caller takes the outcome; the next request may start
Reset ==
    /\ pc = "done"
    /\ pc' = "idle"
    /\ tool' = "none"
    /\ args' = <<>>
    /\ idx' = 0
    /\ results' = EmptyDict
    /\ matching' = <<>>
    /\ trace' = <<>>
    /\ lastCall' = NoCall
    /\ ret' = NoRet
    /\ UNCHANGED <<session, leaked, life>>

Init ==
    /\ session = "none"
    /\ pc = "idle"
    /\ tool = "none"
    /\ args = <<>>
    /\ idx = 0
    /\ results = EmptyDict
    /\ matching = <<>>
    /\ trace = <<>>
    /\ lastCall = NoCall
    /\ ret = NoRet
    /\ leaked = 0
    /\ life = NoLifespan

Next ==
    \/ Connect
    \/ Disconnect
    \/ GeocodeAddress
    \/ ReverseGeocode
    \/ FindNearbyPlaces
    \/ GetRouteDirections
    \/ SearchCategory
    \/ SuggestMeetingPoint
    \/ SuggestExpand
    \/ GetMapStyle
    \/ ExploreStart
    \/ ExploreProgress
    \/ ExploreSearch
    \/ ExploreReverseGeocode
    \/ ExploreFinish
    \/ Reset

Spec == Init /\ [][Next]_vars
\* every outbound call of a started exploration eventually returns or fails
ExploreNext ==
    \/ Connect
    \/ Disconnect
    \/ ExploreStart
    \/ ExploreProgress
    \/ ExploreSearch
    \/ ExploreReverseGeocode
    \/ ExploreFinish
    \/ Reset

FairSpec == Init /\ [][ExploreNext]_vars /\ WF_vars(ExploreStep)

\* app_lifespan --------------------------------------------------------
\* osm_client = OSMClient(); the server takes no request before the
\* lifespan has yielded its context (pc = "down") nor after it ended
\* (pc = "stopped")
LifespanInit ==
    /\ session = "none"
    /\ pc = "down"
    /\ tool = "none"
    /\ args = <<>>
    /\ idx = 0
    /\ results = EmptyDict
    /\ matching = <<>>
    /\ trace = <<>>
    /\ lastCall = NoCall
    /\ ret = NoRet
    /\ leaked = 0
    /\ life = [phase |-> "new", disconnects |-> 0, how |-> "none"]

\* try: await osm_client.connect(); yield AppContext(osm_client).
\* A connect() that raises leaves self.session as it was and goes to the
\* finally clause.
LifespanEnter ==
    /\ pc = "down"
    /\ life.phase = "new"
    /\ \E connected \in BOOLEAN :
        IF connected
        THEN /\ session' = "open"
             /\ pc' = "idle"
             /\ life' = [life EXCEPT !.phase = "serving"]
        ELSE /\ session' = AfterDisconnect(session)
             /\ pc' = "stopped"
             /\ life' = [phase |-> "ended", disconnects |-> life.disconnects + 1,
                         how |-> "connect_failed"]
    /\ UNCHANGED <<tool, args, idx, results, matching, trace, lastCall, ret, leaked>>

\* a lifespan with "except: pass / else: disconnect()" for its finally
LifespanExitElse ==
    /\ pc = "idle"
    /\ life.phase = "serving"
    /\ pc' = "stopped"
    /\ \E how \in {"normal", "error"} :
        IF how = "normal"
        THEN /\ session' = AfterDisconnect(session)
             /\ life' = [phase |-> "ended", disconnects |-> life.disconnects + 1,
                         how |-> how]
        ELSE /\ session' = session
             /\ life' = [phase |-> "ended", disconnects |-> life.disconnects,
                         how |-> how]
    /\ UNCHANGED <<tool, args, idx, results, matching, trace, lastCall, ret, leaked>>

\* the server body ends, by returning or by raising, between two requests:
\* finally: await osm_client.disconnect()
LifespanExit ==
    /\ pc = "idle"
    /\ life.phase = "serving"
    /\ pc' = "stopped"
    /\ \E how \in {"normal", "error"} :
        /\ session' = AfterDisconnect(session)
        /\ life' = [phase |-> "ended", disconnects |-> life.disconnects + 1,
                    how |-> how]
    /\ UNCHANGED <<tool, args, idx, results, matching, trace, lastCall, ret, leaked>>

\* the server run under its lifespan: nothing but the lifespan calls
\* connect() and disconnect()
LifespanNext ==
    \/ LifespanEnter
    \/ LifespanExit
    \/ GeocodeAddress
    \/ ReverseGeocode
    \/ FindNearbyPlaces
    \/ GetRouteDirections
    \/ SearchCategory
    \/ SuggestMeetingPoint
    \/ SuggestExpand
    \/ GetMapStyle
    \/ ExploreStart
    \/ ExploreProgress
    \/ ExploreSearch
    \/ ExploreReverseGeocode
    \/ ExploreFinish
    \/ Reset

LifespanSpec == LifespanInit /\ [][LifespanNext]_vars

\* ----------------------------------------------------------------- claims
NumCategories == Len(ExploreCategories)
CategorySet == {ExploreCategories[k] : k \in 1..NumCategories}

\* positions of the trace by kind of event
ProgressAt == {k \in DOMAIN trace : trace[k].ev = "progress"}
WarningAt  == {k \in DOMAIN trace : trace[k].ev = "warning"}
CallAt     == {k \in DOMAIN trace : trace[k].ev = "call"}
RequestAt  == {k \in DOMAIN trace : trace[k].ev = "request"}
DoneAt     == {k \in DOMAIN trace : trace[k].ev = "completed"}

IsSearchOf(e, c) ==
    /\ e.op = "search_features_by_category"
    /\ e.req.category = c
SearchCallAt(c)   == {k \in CallAt : IsSearchOf(trace[k], c)}
SearchDoneAt(c)   == {k \in DoneAt : IsSearchOf(trace[k], c)}
SearchFailedAt(c) == {k \in SearchDoneAt(c) : ~trace[k].ok}
ReverseCallAt     == {k \in CallAt : trace[k].op = "reverse_geocode"}
FailedCategories  == {c \in CategorySet : SearchFailedAt(c) # {}}

Exploring == tool = "explore_area"
ExploreDone == tool = "explore_area" /\ pc = "done"

\* C1: in an explore_area invocation over n categories the progress
\* notifications are, in order, (0,n), (1,n), ..., (n-1,n) and then the single
\* final (n,n): the k-th one carries current = k-1 and total = n, there are
\* never more than n+1 of them and exactly n+1 once the tool is done,
\* whichever category searches and whether the reverse-geocode call failed.
C1_ProgressSequence ==
    Exploring =>
        /\ Cardinality(ProgressAt) <= NumCategories + 1
        /\ \A k \in ProgressAt :
              /\ trace[k].current = Cardinality({j \in ProgressAt : j < k})
              /\ trace[k].total = NumCategories
        /\ pc = "done" => Cardinality(ProgressAt) = NumCategories + 1

\* an exploration that is done with some searches failed, some answered and
\* the reverse-geocode call failed
C1_Witness ==
    /\ ExploreDone
    /\ FailedCategories # {}
    /\ FailedCategories # CategorySet
    /\ ~lastCall.ok

\* C2 as stated: the notification (index, n) of the category at position
\* index follows the completion of that category's search and precedes the
\* issue of the next category's search.
C2_ProgressAfterOwnSearch ==
    Exploring =>
        \A k \in ProgressAt :
            trace[k].current < NumCategories =>
                /\ \E j \in SearchDoneAt(ExploreCategories[trace[k].current + 1]) : j < k
                /\ trace[k].current + 2 <= NumCategories =>
                      \A j \in SearchCallAt(ExploreCategories[trace[k].current + 2]) : k < j

\* C2 amended: the notification (index, n) precedes the issue of the search
\* of the category at position index, which is issued only after it, and
\* follows the completion of the search of the category before it (if any);
\* (n, n) follows the completion of every search.
C2_ProgressBeforeOwnSearch ==
    Exploring =>
        /\ \A k \in ProgressAt :
              LET i == trace[k].current
              IN  /\ i < NumCategories =>
                        \A j \in SearchCallAt(ExploreCategories[i + 1]) : k < j
                  /\ i > 0 =>
                        \E j \in SearchDoneAt(ExploreCategories[i]) : j < k
                  /\ i = NumCategories =>
                        \A c \in CategorySet : \E j \in SearchDoneAt(c) : j < k
        /\ \A i \in 1..NumCategories :
              \A j \in SearchCallAt(ExploreCategories[i]) :
                  \E k \in ProgressAt : k < j /\ trace[k].current = i - 1

\* the search of the third category has completed and the fourth
\* notification is out while the fourth search is still to be issued
C2_Witness ==
    /\ Exploring
    /\ pc = "fetching"
    /\ idx = 3
    /\ SearchDoneAt(ExploreCategories[3]) # {}
    /\ SearchCallAt(ExploreCategories[4]) = {}
    /\ \E k \in ProgressAt : trace[k].current = 3

\* C3: whatever subset of the category searches fails, exploration returns a
\* 'categories' mapping with exactly the n categories as keys, every failing
\* category maps to the empty mapping and has one warning notification, and
\* the search of every category, those after a failing one included, is
\* issued.
C3_PartialFailureIsolation ==
    /\ Exploring =>
          \A c \in FailedCategories :
              /\ c \in DOMAIN results /\ results[c] = EmptyDict
              /\ Cardinality({k \in WarningAt : trace[k].about = c}) = 1
    /\ ExploreDone =>
          /\ ret.status = "returned"
          /\ DOMAIN ret.value.categories = CategorySet
          /\ Cardinality(DOMAIN ret.value.categories) = NumCategories
          /\ \A c \in FailedCategories : ret.value.categories[c] = EmptyDict
          /\ \A c \in CategorySet : Cardinality(SearchCallAt(c)) = 1
          /\ Cardinality(WarningAt) = Cardinality(FailedCategories)

\* the first search failed, the last one was answered with features
C3_Witness ==
    /\ ExploreDone
    /\ ExploreCategories[1] \in FailedCategories
    /\ ExploreCategories[NumCategories] \notin FailedCategories
    /\ ret.value.categories[ExploreCategories[NumCategories]] # EmptyDict

\* C4: explore_area makes one reverse-geocode call, after the search of every
\* category has completed or failed; when that call fails the tool still
\* returns, with the error placeholder as 'address', and with the answer as
\* 'address' otherwise.
C4_ReverseGeocodeOnceAtEnd ==
    /\ Exploring =>
          /\ Cardinality(ReverseCallAt) <= 1
          /\ \A k \in ReverseCallAt : \A c \in CategorySet :
                \E j \in SearchDoneAt(c) : j < k
    /\ ExploreDone =>
          /\ Cardinality(ReverseCallAt) = 1
          /\ lastCall.op = "reverse_geocode"
          /\ ret.status = "returned"
          /\ ret.value.address = IF lastCall.ok THEN lastCall.body ELSE AddressError

\* the reverse-geocode request was answered with a non-200 status
C4_Witness ==
    /\ ExploreDone
    /\ lastCall.op = "reverse_geocode"
    /\ lastCall.error.kind = "upstream"
    /\ ret.status = "returned"

\* C5: a started exploration reaches 'done' with a returned result, given
\* that every outbound call eventually returns or fails.
ExploreStarted == pc \in {"pending", "fetching", "aggregated", "reverse_geocoding"}
C5_ExploreTerminates ==
    ExploreStarted ~> (ExploreDone /\ ret.status = "returned")

\* an exploration in which every search and the reverse-geocode call failed
\* is done
C5_Witness ==
    /\ ExploreDone
    /\ FailedCategories = CategorySet
    /\ ~lastCall.ok
    /\ ret.status = "returned"

\* C6: an operation on a client that connect() was never called on fails with
\* the 'not connected' error and issues no outbound request.
C6_NotConnected ==
    /\ (lastCall.op # "none" /\ lastCall.sess = "none") =>
          /\ ~lastCall.ok
          /\ lastCall.error.kind = "not_connected"
          /\ lastCall.sent = <<>>
    /\ session = "none" =>
          /\ RequestAt = {}
          /\ \A k \in DoneAt : ~trace[k].ok
          /\ lastCall.op # "none" => lastCall.sess = "none"

\* get_route has been called on the unconnected client by its tool
C6_Witness ==
    /\ session = "none"
    /\ lastCall.op = "get_route"
    /\ lastCall.sess = "none"
    /\ CallAt # {}
    /\ ret.status = "raised"

\* what an operation gives back of the parsed body b of a successful answer:
\* the body, and for the two Overpass operations its element list
ResultOfBody(op, b) ==
    IF op \in {"get_nearby_pois", "search_features_by_category"}
    THEN [list |-> IF b.hasElements THEN b.elements ELSE <<>>]
    ELSE b

Answered == lastCall.op # "none" /\ lastCall.sess = "open"

C8_OneRequestPerCall ==
    /\ Answered => Len(lastCall.sent) = 1
    /\ (session = "open" /\ pc # "idle") =>
          /\ Cardinality(RequestAt) = Cardinality(CallAt)
          /\ \A k \in CallAt :
                /\ k + 2 \in DoneAt
                /\ k + 1 \in RequestAt
                /\ trace[k + 1].op = trace[k].op /\ trace[k + 1].req = trace[k].req
          /\ \A k \in DoneAt : ~trace[k].ok =>
                \A j \in RequestAt : j > k =>
                    ~(trace[j].op = trace[k].op /\ trace[j].req = trace[k].req)

\* suggest_meeting_point whose search at 1000 m failed after the search at
\* 500 m was answered
C8_Witness ==
    /\ tool = "suggest_meeting_point"
    /\ pc = "done"
    /\ session = "open"
    /\ Cardinality(RequestAt) = 2
    /\ lastCall.error.kind = "upstream"

\* the client calls of the invocation that have failed, the category
\* searches of explore_area left out
FailedOutsideSearches ==
    {k \in DoneAt : /\ ~trace[k].ok
                    /\ ~(tool = "explore_area" /\ trace[k].op = "search_features_by_category")}

\* C9 as stated: but for the category searches of explore_area, a client
\* operation that fails in a tool invocation makes the tool raise that error.
C9_AllOtherErrorsPropagate ==
    (pc = "done" /\ FailedOutsideSearches # {}) =>
        ret.status = "raised" /\ ret.error = lastCall.error

FailedOutsideExplore == {k \in DoneAt : ~trace[k].ok /\ tool # "explore_area"}

\* C9 amended: but for the category searches and the reverse-geocode call of
\* explore_area, a client operation that fails in a tool invocation makes the
\* tool raise that error, and no further client call is made; explore_area
\* itself returns a result whichever of its calls fail.
C9_ErrorsOutsideExplorePropagate ==
    /\ (pc = "done" /\ FailedOutsideExplore # {}) =>
          ret.status = "raised" /\ ret.error = lastCall.error
    /\ (pc # "done" /\ pc # "idle") => FailedOutsideExplore = {}
    /\ ExploreDone => ret.status = "returned"

\* find_nearby_places raised the upstream error of its search
C9_Witness ==
    /\ tool = "find_nearby_places"
    /\ pc = "done"
    /\ lastCall.error.kind = "upstream"
    /\ ret = [status |-> "raised", error |-> lastCall.error, value |-> NoValue]

\* the (category, subcategory, position) triples of a grouped result
Entries(cats) ==
    UNION { UNION { {<<c, sub, i>> : i \in 1..Len(cats[c][sub])} : sub \in DOMAIN cats[c] }
            : c \in DOMAIN cats }

\* C10: a result of find_nearby_places has no category with an empty mapping
\* and no subcategory with an empty list, and its total_count is the number
\* of places over all subcategory lists.
C10_NoEmptyGroups ==
    (tool = "find_nearby_places" /\ ret.status = "returned") =>
        /\ \A c \in DOMAIN ret.value.categories :
              /\ DOMAIN ret.value.categories[c] # {}
              /\ \A sub \in DOMAIN ret.value.categories[c] :
                    Len(ret.value.categories[c][sub]) > 0
        /\ ret.value.total_count = Cardinality(Entries(ret.value.categories))

\* a result with two categories and three entries, for the default
\* categories
C10_Witness ==
    /\ tool = "find_nearby_places"
    /\ ret.status = "returned"
    /\ Cardinality(DOMAIN ret.value.categories) = 2
    /\ ret.value.total_count >= 3
    /\ args.categories = <<>>

Suggesting == tool = "suggest_meeting_point"
VenueCallAt(r) == {k \in CallAt : trace[k].op = "get_nearby_pois" /\ trace[k].req.radius = r}
\* the venues of an answer whose amenity tag is the requested type
MatchCount(venues, venue_type) ==
    Cardinality({k \in DOMAIN venues :
                    /\ "amenity" \in DOMAIN venues[k].tags
                    /\ venues[k].tags["amenity"] = venue_type})

SuggestSearches ==
    Suggesting =>
        /\ Cardinality(CallAt) <= 2
        /\ Cardinality(VenueCallAt(FirstRadius)) <= 1
        /\ Cardinality(VenueCallAt(ExpandedRadius)) <= 1
        \* waiting for the second search: the first was answered without a match
        /\ pc = "suggest_expand" =>
              /\ Cardinality(CallAt) = 1 /\ VenueCallAt(FirstRadius) = CallAt
              /\ lastCall.ok
              /\ MatchCount(lastCall.value.list, args.venue_type) = 0
        \* done after one answered search: it had a match
        /\ (pc = "done" /\ Cardinality(CallAt) = 1 /\ lastCall.ok) =>
              /\ VenueCallAt(FirstRadius) = CallAt
              /\ MatchCount(lastCall.value.list, args.venue_type) >= 1
              /\ ret.status = "returned"
              /\ ret.value.suggested_venues # <<>>
        \* done after the second search
        /\ (pc = "done" /\ VenueCallAt(ExpandedRadius) # {}) =>
              /\ Cardinality(CallAt) = 2
              /\ \A k \in VenueCallAt(FirstRadius) :
                    /\ \A j \in VenueCallAt(ExpandedRadius) : k < j
                    /\ trace[k + 2].ev = "completed" /\ trace[k + 2].ok
              /\ lastCall.ok =>
                    /\ ret.status = "returned"
                    /\ ret.value.total_options =
                          MatchCount(lastCall.value.list, args.venue_type)
                    /\ MatchCount(lastCall.value.list, args.venue_type) >= 1
                          => ret.value.suggested_venues # <<>>

\* C11: suggest_meeting_point issues the search at 1000 m exactly when the
\* search at 500 m was answered with no venue of the requested type; a match
\* at 500 m ends the tool after that one search, and no match at 500 m with
\* a match at 1000 m gives a non-empty suggested_venues.
C11_ExpandIffNoMatch ==
    /\ []SuggestSearches
    /\ [][(Suggesting' /\ VenueCallAt(ExpandedRadius) = {}
                /\ (VenueCallAt(ExpandedRadius) # {})')
            => (Suggesting /\ pc = "suggest_expand")]_vars

\* no match at 500 m, a match at 1000 m, venues suggested
C11_Witness ==
    /\ Suggesting
    /\ pc = "done"
    /\ VenueCallAt(ExpandedRadius) # {}
    /\ ret.status = "returned"
    /\ Len(ret.value.suggested_venues) >= 1

\* C12: with fewer than two locations suggest_meeting_point raises the
\* validation error without a client call or an outbound request; with two
\* or more it never raises that error.
C12_LocationsValidated ==
    (Suggesting /\ pc # "idle") =>
        /\ args.locations < 2 =>
              /\ pc = "done"
              /\ ret = [status |-> "raised",
                        error |-> [kind |-> "validation", status |-> 0],
                        value |-> NoValue]
              /\ trace = <<>>
              /\ lastCall = NoCall
        /\ args.locations >= 2 =>
              /\ ret.error.kind # "validation"
              /\ CallAt # {}

\* one location on a connected client: the validation error and no request
C12_Witness ==
    /\ Suggesting
    /\ args.locations = 1
    /\ session = "open"
    /\ ret.error.kind = "validation"
    /\ RequestAt = {}

\* coordinates that are there: a non-empty mapping without a null in it
HasCoordinates(c) ==
    /\ DOMAIN c # {}
    /\ c.latitude # None
    /\ c.longitude # None

\* a provider element that carries coordinates: lat/lon on a node, a center
\* on a way or relation
CarriesCoordinates(feature) ==
    IF feature.type = "node" THEN feature.lat ELSE feature.center

\* C13: every feature in the output of search_category and of explore_area
\* carries non-empty, non-null coordinates, and the features whose
\* coordinates are absent are not counted in count / total_features.
C13_NoFeatureWithoutCoordinates ==
    /\ (tool = "search_category" /\ ret.status = "returned") =>
          /\ \A k \in DOMAIN ret.value.results :
                HasCoordinates(ret.value.results[k].coordinates)
          /\ ret.value.count =
                Cardinality({k \in DOMAIN lastCall.value.list :
                                CarriesCoordinates(lastCall.value.list[k])})
    /\ (ExploreDone /\ ret.status = "returned") =>
          \A x \in Entries(ret.value.categories) :
              HasCoordinates(ret.value.categories[x[1]][x[2]][x[3]].coordinates)

\* the first category of the list that the tags carry
FirstCategoryOf(tags, categories) ==
    categories[CHOOSE k \in DOMAIN categories :
                  /\ categories[k] \in DOMAIN tags
                  /\ \A j \in 1..(k - 1) : categories[j] \notin DOMAIN tags]

NoDuplicates(seq) == \A i, j \in DOMAIN seq : seq[i] = seq[j] => i = j

\* C14: in a result of find_nearby_places (asked with a list of distinct
\* categories) every place is listed under the first category of the list
\* that its tags carry, and a place is listed no more often than the
\* provider's answer has it.
C14_FirstMatchOnly ==
    (tool = "find_nearby_places" /\ ret.status = "returned"
        /\ NoDuplicates(args.categories)) =>
        LET cats == ret.value.categories
            asked == EffectiveCategories(args.categories)
        IN  /\ \A x \in Entries(cats) :
                  x[1] = FirstCategoryOf(cats[x[1]][x[2]][x[3]].tags, asked)
            /\ \A x \in Entries(cats) :
                  Cardinality({y \in Entries(cats) :
                                  cats[y[1]][y[2]][y[3]].id = cats[x[1]][x[2]][x[3]].id})
                    <= Cardinality({k \in DOMAIN lastCall.value.list :
                                  lastCall.value.list[k].id = cats[x[1]][x[2]][x[3]].id})

\* C15: for limit >= 0 the total_count of find_nearby_places (asked with a
\* list of distinct categories) is at most limit.
C15_AtMostLimit ==
    (tool = "find_nearby_places" /\ ret.status = "returned" /\ args.limit >= 0
        /\ NoDuplicates(args.categories)) =>
        ret.value.total_count <= args.limit

\* the server a style is to be served from
ServerOfStyle(style) ==
    CASE style = "cycle"     -> "https://tile.thunderforest.com/cycle/{z}/{x}/{y}.png"
      [] style = "transport" -> "https://tile.thunderforest.com/transport/{z}/{x}/{y}.png"
      [] style = "landscape" -> "https://tile.thunderforest.com/landscape/{z}/{x}/{y}.png"
      [] style = "outdoor"   -> "https://tile.thunderforest.com/outdoors/{z}/{x}/{y}.png"
      [] OTHER               -> "https://tile.openstreetmap.org/{z}/{x}/{y}.png"

TileRequests == {k \in DOMAIN trace : trace[k].ev = "tile_request"}

\* C16: a tile request issues one request, for the tile asked for, to the
\* server of its style if the style is a known one and to the 'standard'
\* server if it is not; it returns the tile with mime type "image/png" when
\* the server answers 200 and raises only when the server answers otherwise,
\* whatever the style and whatever the state of the client's session.
C16_TileServing ==
    (tool = "get_map_style" /\ pc = "done") =>
        /\ TileRequests = {1}
        /\ trace[1].url = [template |-> ServerOfStyle(args.style),
                           z |-> args.z, x |-> args.x, y |-> args.y]
        /\ ret.status = "returned" <=> trace[2].status = 200
        /\ ret.status = "returned" => ret.value.mime = "image/png"
        /\ ret.status = "raised" =>
              ret.error = [kind |-> "upstream", status |-> trace[2].status]

\* a tile of the unknown style "outdoors" was served from the standard
\* server, the client being unconnected
C16_Witness ==
    /\ tool = "get_map_style"
    /\ args.style = "outdoors"
    /\ session = "none"
    /\ trace[1].url.template = TileServers["standard"]
    /\ ret = Returned([data |-> TileData, mime |-> "image/png"])

\* the outbound requests of the invocation that carry a bounding box
BoxAt == {k \in RequestAt :
             trace[k].op \in {"get_nearby_pois", "search_features_by_category"}}

\* the box (min_lon, min_lat, max_lon, max_lat) has the point strictly
\* inside and is 2 * radius / 111000 degrees high
BoxAround(box, latitude, longitude, radius) ==
    /\ box[2] < latitude * UnitsPerDegree
    /\ latitude * UnitsPerDegree < box[4]
    /\ box[1] < longitude * UnitsPerDegree
    /\ longitude * UnitsPerDegree < box[3]
    /\ box[4] - box[2] = 2 * radius

OpenSessions == leaked + (IF session = "open" THEN 1 ELSE 0)

\* C18: after any sequence of connect() and disconnect() calls at most one
\* session created by the client is open, and none is once disconnect() has
\* returned or when connect() was never called.
C18_AtMostOneOpenSession ==
    /\ OpenSessions <= 1
    /\ session # "open" => OpenSessions = 0

\* C19: under app_lifespan a tool runs only after connect() has completed
\* and before disconnect() is called, so every client operation of a tool
\* finds the session open; and when the lifespan has ended, by the body
\* returning, by the body raising or by connect() failing, disconnect() has
\* been called exactly once.
C19_LifespanBrackets ==
    /\ life.phase \in {"new", "serving", "ended"}
    /\ life.phase = "new" => pc = "down" /\ life.disconnects = 0
    /\ life.phase = "serving" => session = "open" /\ life.disconnects = 0
    /\ life.phase = "ended" =>
          /\ pc = "stopped"
          /\ life.disconnects = 1
          /\ life.how \in {"normal", "error", "connect_failed"}
          /\ session # "open"
    /\ tool # "none" => life.phase = "serving"
    /\ lastCall.op # "none" => lastCall.sess = "open"
    /\ ret.error.kind \notin {"not_connected", "session_closed"}

\* the lifespan ended by an error of the body and closed the session
C19_Witness ==
    /\ life = [phase |-> "ended", disconnects |-> 1, how |-> "error"]
    /\ session = "closed"
====
